---------------------------- MODULE Spec2Model ----------------------------
(***************************************************************************)
(* Scenario engine of the transport emissions calculator (src/app.py).    *)
(*                                                                         *)
(* The module globals computed at start-up (data_load, data_initialisation,*)
(* pt_proj_effects) and the callback update_graph, which copies the master *)
(* table and runs the eight stages on the copy.                            *)
(*                                                                         *)
(* Numbers: the program computes in IEEE doubles; the model computes in    *)
(* exact rationals <<n, d>> (d > 0, lowest terms), extended with           *)
(* <<1,0>> = +inf, <<-1,0>> = -inf and <<0,0>> = nan for the results of a  *)
(* division by zero.  Equalities proved here are the exact identities that *)
(* the doubles satisfy up to rounding.                                     *)
(*                                                                         *)
(* DataFrames are references: heap maps a frame id to a table, and a       *)
(* variable holding a DataFrame holds a frame id.  The chained writes      *)
(* base_numbers.loc[row][col] += x write through to the frame, as they do  *)
(* for a single-dtype (all float64) frame in the pandas the program was    *)
(* written for.                                                            *)
(***************************************************************************)
EXTENDS Integers, Sequences, FiniteSets, TLC

\* ------------------------------------------------------------------ bounds
NumProjects == 2    \* rows of pt_details.csv that the checklist offers
MaxRuns == 2        \* evaluations one client triggers

\* ------------------------------------------------------------ arithmetic
Abs(x) == IF x < 0 THEN -x ELSE x

RECURSIVE Gcd(_, _)
Gcd(a, b) == IF b = 0 THEN a ELSE Gcd(b, a % b)

Sign(x) == IF x < 0 THEN -1 ELSE IF x > 0 THEN 1 ELSE 0

Nan == <<0, 0>>
Inf(s) == <<s, 0>>
IsFinite(a) == a[2] # 0
IsNan(a) == a = Nan

R(n) == <<n, 1>>
Frac(n, d) ==
    IF d = 0 THEN <<Sign(n), 0>>
    ELSE LET g == Gcd(Abs(n), Abs(d))
             s == IF d < 0 THEN -1 ELSE 1
         IN  <<(s * n) \div g, (s * d) \div g>>

RNeg(a) == <<-a[1], a[2]>>

RAdd(a, b) ==
    IF IsNan(a) \/ IsNan(b) THEN Nan
    ELSE IF ~IsFinite(a) /\ ~IsFinite(b) THEN (IF a = b THEN a ELSE Nan)
    ELSE IF ~IsFinite(a) THEN a
    ELSE IF ~IsFinite(b) THEN b
    ELSE LET g == Gcd(a[2], b[2])
         IN  Frac(a[1] * (b[2] \div g) + b[1] * (a[2] \div g), (a[2] \div g) * b[2])

RSub(a, b) == RAdd(a, RNeg(b))

RMul(a, b) ==
    IF IsNan(a) \/ IsNan(b) THEN Nan
    ELSE IF ~IsFinite(a) \/ ~IsFinite(b)
         THEN (IF a[1] = 0 \/ b[1] = 0 THEN Nan ELSE Inf(Sign(a[1]) * Sign(b[1])))
    ELSE LET g1 == Gcd(Abs(a[1]), b[2])
             g2 == Gcd(Abs(b[1]), a[2])
         IN  <<(a[1] \div g1) * (b[1] \div g2), (a[2] \div g2) * (b[2] \div g1)>>

RDiv(a, b) ==
    IF IsNan(a) \/ IsNan(b) THEN Nan
    ELSE IF ~IsFinite(b) THEN (IF IsFinite(a) THEN R(0) ELSE Nan)
    ELSE IF ~IsFinite(a) THEN Inf(a[1] * (IF b[1] < 0 THEN -1 ELSE 1))
    ELSE IF b[1] = 0 THEN Inf(Sign(a[1]))
    ELSE RMul(a, IF b[1] < 0 THEN <<-b[2], -b[1]>> ELSE <<b[2], b[1]>>)

\* a > b on doubles: false when either side is nan
RGt(a, b) ==
    /\ ~IsNan(a) /\ ~IsNan(b)
    /\ a # b
    /\ IF ~IsFinite(a) THEN a[1] > 0
       ELSE IF ~IsFinite(b) THEN b[1] < 0
       ELSE a[1] * b[2] > b[1] * a[2]

\* ------------------------------------------------------------------ modes
private_modes == <<"passenger_light", "electric_light", "walking", "cycling">>
pt_modes == <<"diesel_bus", "electric_bus", "heavy_rail", "light_rail">>
all_modes == <<"passenger_light", "electric_light", "walking", "cycling",
               "diesel_bus", "electric_bus", "heavy_rail", "light_rail">>

Range(s) == {s[i] : i \in DOMAIN s}
Modes == Range(all_modes)

BaselineRows == {"pkt_2018", "vkt_2018", "pkt_2030_baseline", "vkt_2030_baseline",
                 "emissions_2018", "emissions_2030_baseline"}
ScenarioRows == {"pkt_2030_scenario", "vkt_2030_scenario", "emissions_2030_scenario"}
Rows == BaselineRows \cup ScenarioRows

\* a row of a csv file, in the column order of all_modes
Row(s) == [m \in Modes |-> R(s[CHOOSE i \in DOMAIN all_modes : all_modes[i] = m])]

\* ------------------------------------------------------------ input files
CsvIds == {1, 2}
\* input files whose private/active baseline pkt sum to zero (3), or sum to
\* zero once cycling is left out (4)
ZeroDenominatorCsvIds == {3, 4}

\* base_numbers.csv: the scenario rows start as the baseline rows, the
\* emissions rows are placeholders
BaseNumbersCsv(k) ==
    LET pkt18 == Row(<<60000, 5000, 10000, 8000, 45000, 0, 25000, 0>>)
        vkt18 == Row(<<38000, 3000, 10000, 8000, 4500, 0, 1800, 0>>)
        pkt30 == CASE k = 1 -> Row(<<63200, 15800, 11000, 10000, 50000, 10000, 30000, 5000>>)
                   [] k = 2 -> Row(<<60000, 20000, 10000, 10000, 40000, 6000, 30000, 0>>)
                   [] k = 3 -> Row(<<0, 0, 0, 0, 40000, 6000, 30000, 0>>)
                   [] k = 4 -> Row(<<0, 0, 0, 10000, 40000, 6000, 30000, 0>>)
        vkt30 == CASE k = 1 -> Row(<<40000, 10000, 11000, 10000, 5000, 1000, 2000, 500>>)
                   [] k = 2 -> Row(<<40000, 12000, 9000, 10000, 4000, 600, 2000, 0>>)
                   [] k = 3 -> Row(<<0, 0, 0, 0, 4000, 600, 2000, 0>>)
                   [] k = 4 -> Row(<<0, 0, 0, 10000, 4000, 600, 2000, 0>>)
        zero  == Row(<<0, 0, 0, 0, 0, 0, 0, 0>>)
    IN  [r \in Rows |->
           CASE r = "pkt_2018" -> pkt18
             [] r = "vkt_2018" -> vkt18
             [] r \in {"pkt_2030_baseline", "pkt_2030_scenario"} -> pkt30
             [] r \in {"vkt_2030_baseline", "vkt_2030_scenario"} -> vkt30
             [] OTHER -> zero]

EmissionFactorsCsv(k) ==
    [values_2018 |-> Row(<<3, 1, 0, 0, 10, 2, 5, 4>>),
     values_2030_baseline |->
         IF k = 1 THEN Row(<<3, 1, 0, 0, 10, 2, 5, 4>>) ELSE Row(<<2, 1, 0, 0, 9, 2, 5, 4>>),
     values_2030_scenario |-> Row(<<2, 1, 0, 0, 9, 2, 5, 4>>)]

\* pt_details.csv: one record per project
PtDetailsRows ==
    <<[primary_mode |-> "heavy_rail", peak_freq |-> 60, off_peak_freq |-> 120,
       vehicle_capacity |-> 1, distance |-> 1, num_peak_hrs |-> 4, num_hours |-> 6],
      [primary_mode |-> "diesel_bus", peak_freq |-> 60, off_peak_freq |-> 60,
       vehicle_capacity |-> 1, distance |-> 1, num_peak_hrs |-> 2, num_hours |-> 3],
      [primary_mode |-> "light_rail", peak_freq |-> 120, off_peak_freq |-> 120,
       vehicle_capacity |-> 1, distance |-> 2, num_peak_hrs |-> 2, num_hours |-> 4],
      [primary_mode |-> "electric_bus", peak_freq |-> 120, off_peak_freq |-> 60,
       vehicle_capacity |-> 1, distance |-> 1, num_peak_hrs |-> 2, num_hours |-> 4]>>

Projects == 1..NumProjects
PtDetailsCsv == [p \in Projects |-> PtDetailsRows[((p - 1) % Len(PtDetailsRows)) + 1]]

\* --------------------------------------------------------------- start-up
data_load(k) ==
    LET bn == BaseNumbersCsv(k)
        ef == EmissionFactorsCsv(k)
        times(f, v) == [m \in Modes |-> RMul(f[m], v[m])]
    IN  [pt_details |-> PtDetailsCsv,
         base_numbers |->
            [bn EXCEPT !["emissions_2018"] = times(ef.values_2018, bn["vkt_2018"]),
                       !["emissions_2030_baseline"] =
                            times(ef.values_2030_baseline, bn["vkt_2030_baseline"]),
                       !["emissions_2030_scenario"] =
                            times(ef.values_2030_scenario, bn["vkt_2030_scenario"])],
         emission_factors |-> ef]

RECURSIVE SumBaseline(_, _, _)
\* the accumulation loop of data_initialisation over private_modes[1..i]
SumBaseline(bn, i, skip) ==
    IF i = 0 THEN R(0)
    ELSE IF private_modes[i] \in skip THEN SumBaseline(bn, i - 1, skip)
    ELSE RAdd(SumBaseline(bn, i - 1, skip), bn["pkt_2030_baseline"][private_modes[i]])

data_initialisation(bn) ==
    [pkt_annualisation |-> R(2250),
     vkt_annualisation |-> R(332),
     car_occupancy |-> Frac(158, 100),
     mode_sum_pkt |-> SumBaseline(bn, Len(private_modes), {}),
     mode_pkt_no_bike |-> SumBaseline(bn, Len(private_modes), {"cycling"}),
     bus_lifespan |-> R(15)]

RECURSIVE PrivateEffects_no_bike(_, _, _, _, _)
\* the shares taken over the private total without cycling
PrivateEffects_no_bike(nums, bn, primary, eff0, i) ==
    IF i = 0 THEN eff0
    ELSE LET eff == PrivateEffects_no_bike(nums, bn, primary, eff0, i - 1)
             mode == private_modes[i]
             pkt == RMul(RDiv(RNeg(bn["pkt_2030_baseline"][mode]), nums.mode_pkt_no_bike),
                         eff.pkt[primary])
             vkt == IF mode \in {"passenger_light", "electric_light"}
                    THEN RDiv(pkt, nums.car_occupancy)
                    ELSE pkt
         IN  [pkt |-> [eff.pkt EXCEPT ![mode] = pkt],
              vkt |-> [eff.vkt EXCEPT ![mode] = vkt]]

RECURSIVE PrivateEffects_vkt_one_to_one(_, _, _, _, _)
\* the light modes' vkt effect not divided by the occupancy
PrivateEffects_vkt_one_to_one(nums, bn, primary, eff0, i) ==
    IF i = 0 THEN eff0
    ELSE LET eff == PrivateEffects_vkt_one_to_one(nums, bn, primary, eff0, i - 1)
             mode == private_modes[i]
             pkt == RMul(RDiv(RNeg(bn["pkt_2030_baseline"][mode]), nums.mode_sum_pkt),
                         eff.pkt[primary])
         IN  [pkt |-> [eff.pkt EXCEPT ![mode] = pkt],
              vkt |-> [eff.vkt EXCEPT ![mode] = pkt]]

RECURSIVE PrivateEffects_sign_lost(_, _, _, _, _)
\* the private effect without its minus sign
PrivateEffects_sign_lost(nums, bn, primary, eff0, i) ==
    IF i = 0 THEN eff0
    ELSE LET eff == PrivateEffects_sign_lost(nums, bn, primary, eff0, i - 1)
             mode == private_modes[i]
             pkt == RMul(RDiv(bn["pkt_2030_baseline"][mode], nums.mode_sum_pkt),
                         eff.pkt[primary])
             vkt == IF mode \in {"passenger_light", "electric_light"}
                    THEN RDiv(pkt, nums.car_occupancy)
                    ELSE pkt
         IN  [pkt |-> [eff.pkt EXCEPT ![mode] = pkt],
              vkt |-> [eff.vkt EXCEPT ![mode] = vkt]]

RECURSIVE PrivateEffects(_, _, _, _, _)
\* the loop over numbers['private_modes'] of pt_proj_effects for one project:
\* eff = [pkt |-> row, vkt |-> row] after the first i private modes
PrivateEffects(nums, bn, primary, eff0, i) ==
    IF i = 0 THEN eff0
    ELSE LET eff == PrivateEffects(nums, bn, primary, eff0, i - 1)
             mode == private_modes[i]
             pkt == RMul(RDiv(RNeg(bn["pkt_2030_baseline"][mode]), nums.mode_sum_pkt),
                         eff.pkt[primary])
             vkt == IF mode \in {"passenger_light", "electric_light"}
                    THEN RDiv(pkt, nums.car_occupancy)
                    ELSE pkt
         IN  [pkt |-> [eff.pkt EXCEPT ![mode] = pkt],
              vkt |-> [eff.vkt EXCEPT ![mode] = vkt]]

\* the loop over pt_modes that zeroes the non-primary transit cells left out
ProjectEffect_transit_not_zeroed(nums, bn, d) ==
    LET peak == RDiv(R(60), R(d.peak_freq))
        off  == RDiv(R(60), R(d.off_peak_freq))
        pkt_primary ==
            RMul(RMul(RMul(RMul(RMul(peak, R(d.distance)), nums.pkt_annualisation),
                           R(d.vehicle_capacity)), R(2)), R(2))
        vkt_primary ==
            RMul(RMul(RMul(RAdd(RMul(peak, R(d.num_peak_hrs)),
                                RMul(off, R(d.num_hours - d.num_peak_hrs))),
                           R(d.distance)), nums.vkt_annualisation), R(2))
        empty == [m \in Modes |-> Nan]
        eff0 == [pkt |-> [empty EXCEPT ![d.primary_mode] = pkt_primary],
                 vkt |-> [empty EXCEPT ![d.primary_mode] = vkt_primary]]
    IN  PrivateEffects(nums, bn, d.primary_mode, eff0, Len(private_modes))

\* the effect rows of one project (the body of the loop over pt_details.index)
ProjectEffect(nums, bn, d) ==
    LET peak == RDiv(R(60), R(d.peak_freq))
        off  == RDiv(R(60), R(d.off_peak_freq))
        pkt_primary ==
            RMul(RMul(RMul(RMul(RMul(peak, R(d.distance)), nums.pkt_annualisation),
                           R(d.vehicle_capacity)), R(2)), R(2))
        vkt_primary ==
            RMul(RMul(RMul(RAdd(RMul(peak, R(d.num_peak_hrs)),
                                RMul(off, R(d.num_hours - d.num_peak_hrs))),
                           R(d.distance)), nums.vkt_annualisation), R(2))
        empty == [m \in Modes |-> Nan]
        eff0 == [pkt |-> [empty EXCEPT ![d.primary_mode] = pkt_primary],
                 vkt |-> [empty EXCEPT ![d.primary_mode] = vkt_primary]]
        eff1 == PrivateEffects(nums, bn, d.primary_mode, eff0, Len(private_modes))
        others == Range(pt_modes) \ {d.primary_mode}
    IN  [pkt |-> [m \in Modes |-> IF m \in others THEN R(0) ELSE eff1.pkt[m]],
         vkt |-> [m \in Modes |-> IF m \in others THEN R(0) ELSE eff1.vkt[m]]]

pt_proj_effects(nums, bn, details) ==
    [pt_effects_vkt |-> [p \in DOMAIN details |-> ProjectEffect(nums, bn, details[p]).vkt],
     pt_effects_pkt |-> [p \in DOMAIN details |-> ProjectEffect(nums, bn, details[p]).pkt]]

\* ------------------------------------------------------------- the stages
RECURSIVE SumRows(_, _, _)
\* pt_effects.loc[pt_included].sum(): the column sums of the selected rows;
\* sum() skips the nan cells (skipna)
SumRows(eff, incl, m) ==
    IF incl = {} THEN R(0)
    ELSE LET p == CHOOSE q \in incl : TRUE
         IN  IF IsNan(eff[p][m]) THEN SumRows(eff, incl \ {p}, m)
             ELSE RAdd(eff[p][m], SumRows(eff, incl \ {p}, m))

\* the scenario rows set to the baseline rows plus the summed effects
pt_projects_apply_from_baseline(bn, effects_vkt, effects_pkt, pt_included) ==
    IF pt_included # {}
    THEN [bn EXCEPT
            !["vkt_2030_scenario"] =
                [m \in Modes |-> RAdd(bn["vkt_2030_baseline"][m],
                                      SumRows(effects_vkt, pt_included, m))],
            !["pkt_2030_scenario"] =
                [m \in Modes |-> RAdd(bn["pkt_2030_baseline"][m],
                                      SumRows(effects_pkt, pt_included, m))]]
    ELSE bn

pt_projects_apply(bn, effects_vkt, effects_pkt, pt_included) ==
    IF pt_included # {}
    THEN [bn EXCEPT
            !["vkt_2030_scenario"] =
                [m \in Modes |-> RAdd(@[m], SumRows(effects_vkt, pt_included, m))],
            !["pkt_2030_scenario"] =
                [m \in Modes |-> RAdd(@[m], SumRows(effects_pkt, pt_included, m))]]
    ELSE bn

RECURSIVE BusRidershipLoop_vkt_share(_, _, _, _)
\* the share of a mode read from the vkt baseline row
BusRidershipLoop_vkt_share(nums, bn0, bus_change, i) ==
    IF i = 0 THEN bn0
    ELSE LET bn == BusRidershipLoop_vkt_share(nums, bn0, bus_change, i - 1)
             mode == private_modes[i]
             effect == RMul(RDiv(RNeg(bn["vkt_2030_baseline"][mode]), nums.mode_sum_pkt),
                            bus_change)
             dv == IF mode \in {"passenger_light", "electric_light"}
                   THEN RDiv(effect, nums.car_occupancy)
                   ELSE effect
         IN  [bn EXCEPT !["pkt_2030_scenario"][mode] = RAdd(@, effect),
                        !["vkt_2030_scenario"][mode] = RAdd(@, dv)]

RECURSIVE BusRidershipLoop_effect_added(_, _, _, _)
\* the minus sign of effect lost
BusRidershipLoop_effect_added(nums, bn0, bus_change, i) ==
    IF i = 0 THEN bn0
    ELSE LET bn == BusRidershipLoop_effect_added(nums, bn0, bus_change, i - 1)
             mode == private_modes[i]
             effect == RMul(RDiv(bn["pkt_2030_baseline"][mode], nums.mode_sum_pkt),
                            bus_change)
             dv == IF mode \in {"passenger_light", "electric_light"}
                   THEN RDiv(effect, nums.car_occupancy)
                   ELSE effect
         IN  [bn EXCEPT !["pkt_2030_scenario"][mode] = RAdd(@, effect),
                        !["vkt_2030_scenario"][mode] = RAdd(@, dv)]

RECURSIVE BusRidershipLoop(_, _, _, _)
\* the loop over private_modes of bus_ridership_changes, first i modes done
BusRidershipLoop(nums, bn0, bus_change, i) ==
    IF i = 0 THEN bn0
    ELSE LET bn == BusRidershipLoop(nums, bn0, bus_change, i - 1)
             mode == private_modes[i]
             effect == RMul(RDiv(RNeg(bn["pkt_2030_baseline"][mode]), nums.mode_sum_pkt),
                            bus_change)
             dv == IF mode \in {"passenger_light", "electric_light"}
                   THEN RDiv(effect, nums.car_occupancy)
                   ELSE effect
         IN  [bn EXCEPT !["pkt_2030_scenario"][mode] = RAdd(@, effect),
                        !["vkt_2030_scenario"][mode] = RAdd(@, dv)]

\* bus_change taken from the scenario row instead of the baseline row
bus_ridership_changes_scenario_row(nums, bn, bus_prop_increase) ==
    IF RGt(bus_prop_increase, R(0))
    THEN LET bus_change == RMul(bn["pkt_2030_scenario"]["diesel_bus"], bus_prop_increase)
             bn1 == [bn EXCEPT !["pkt_2030_scenario"]["diesel_bus"] = RAdd(@, bus_change)]
         IN  BusRidershipLoop(nums, bn1, bus_change, Len(private_modes))
    ELSE bn

\* the ridership increase also added to the diesel_bus vehicle-distance
bus_ridership_changes_adds_vkt(nums, bn, bus_prop_increase) ==
    IF RGt(bus_prop_increase, R(0))
    THEN LET bus_change == RMul(bn["pkt_2030_baseline"]["diesel_bus"], bus_prop_increase)
             bn1 == [bn EXCEPT
                        !["pkt_2030_scenario"]["diesel_bus"] = RAdd(@, bus_change),
                        !["vkt_2030_scenario"]["diesel_bus"] =
                            RMul(@, RAdd(R(1), bus_prop_increase))]
         IN  BusRidershipLoop(nums, bn1, bus_change, Len(private_modes))
    ELSE bn

bus_ridership_changes(nums, bn, bus_prop_increase) ==
    IF RGt(bus_prop_increase, R(0))
    THEN LET bus_change == RMul(bn["pkt_2030_baseline"]["diesel_bus"], bus_prop_increase)
             bn1 == [bn EXCEPT !["pkt_2030_scenario"]["diesel_bus"] = RAdd(@, bus_change)]
         IN  BusRidershipLoop(nums, bn1, bus_change, Len(private_modes))
    ELSE bn

RECURSIVE CyclingLoop_sum_pkt(_, _, _, _)
\* the share taken of mode_sum_pkt, cycling included
CyclingLoop_sum_pkt(nums, bn0, cycling_change, i) ==
    IF i = 0 THEN [bn |-> bn0, effect |-> Nan]
    ELSE LET st == CyclingLoop_sum_pkt(nums, bn0, cycling_change, i - 1)
             mode == private_modes[i]
             effect == IF mode # "cycling"
                       THEN RMul(RDiv(RNeg(st.bn["pkt_2030_baseline"][mode]),
                                      nums.mode_sum_pkt), cycling_change)
                       ELSE st.effect
             bn1 == IF mode # "cycling"
                    THEN [st.bn EXCEPT !["pkt_2030_scenario"][mode] = RAdd(@, effect)]
                    ELSE st.bn
             dv == IF mode \in {"passenger_light", "electric_light"}
                   THEN RDiv(effect, nums.car_occupancy)
                   ELSE effect
         IN  [bn |-> [bn1 EXCEPT !["vkt_2030_scenario"][mode] = RAdd(@, dv)],
              effect |-> effect]

RECURSIVE CyclingLoop(_, _, _, _)
\* the loop over private_modes of cycling_changes, first i modes done; the
\* local variable effect is assigned only when mode != 'cycling' and keeps
\* its last value otherwise
CyclingLoop(nums, bn0, cycling_change, i) ==
    IF i = 0 THEN [bn |-> bn0, effect |-> Nan]
    ELSE LET st == CyclingLoop(nums, bn0, cycling_change, i - 1)
             mode == private_modes[i]
             effect == IF mode # "cycling"
                       THEN RMul(RDiv(RNeg(st.bn["pkt_2030_baseline"][mode]),
                                      nums.mode_pkt_no_bike), cycling_change)
                       ELSE st.effect
             bn1 == IF mode # "cycling"
                    THEN [st.bn EXCEPT !["pkt_2030_scenario"][mode] = RAdd(@, effect)]
                    ELSE st.bn
             dv == IF mode \in {"passenger_light", "electric_light"}
                   THEN RDiv(effect, nums.car_occupancy)
                   ELSE effect
         IN  [bn |-> [bn1 EXCEPT !["vkt_2030_scenario"][mode] = RAdd(@, dv)],
              effect |-> effect]

\* the cycling increase taken of the scenario cycling pkt
cycling_changes_scenario_row(nums, bn, cycling_included) ==
    IF RGt(cycling_included, R(0))
    THEN LET included == RSub(cycling_included, R(1))
             cycling_change == RMul(bn["pkt_2030_scenario"]["cycling"], included)
             bn1 == [bn EXCEPT !["pkt_2030_scenario"]["cycling"] = RAdd(@, cycling_change)]
         IN  CyclingLoop(nums, bn1, cycling_change, Len(private_modes)).bn
    ELSE bn

cycling_changes(nums, bn, cycling_included) ==
    IF RGt(cycling_included, R(0))
    THEN LET included == RSub(cycling_included, R(1))
             cycling_change == RMul(bn["pkt_2030_baseline"]["cycling"], included)
             bn1 == [bn EXCEPT !["pkt_2030_scenario"]["cycling"] = RAdd(@, cycling_change)]
         IN  CyclingLoop(nums, bn1, cycling_change, Len(private_modes)).bn
    ELSE bn

\* base_numbers.loc[row, src] += -x ; base_numbers.loc[row, dst] += x
Shift(bn, row, src, dst, x) ==
    [bn EXCEPT ![row][src] = RAdd(@, RNeg(x)), ![row][dst] = RAdd(@, x)]

\* the electric bus cells assigned the shift instead of increased by it
bus_electric_assign(nums, bn, bus_electrification_included) ==
    IF bus_electrification_included > 2019
    THEN LET prop == RDiv(R(2030 - bus_electrification_included), nums.bus_lifespan)
             bus_vkt_shift == RMul(bn["vkt_2030_scenario"]["diesel_bus"], prop)
             bus_pkt_shift == RMul(bn["pkt_2030_scenario"]["diesel_bus"], prop)
         IN  [bn EXCEPT !["vkt_2030_scenario"]["diesel_bus"] = RAdd(@, RNeg(bus_vkt_shift)),
                        !["vkt_2030_scenario"]["electric_bus"] = bus_vkt_shift,
                        !["pkt_2030_scenario"]["diesel_bus"] = RAdd(@, RNeg(bus_pkt_shift)),
                        !["pkt_2030_scenario"]["electric_bus"] = bus_pkt_shift]
    ELSE bn

\* the shift taken of the baseline diesel_bus cells
bus_electric_baseline_row(nums, bn, bus_electrification_included) ==
    IF bus_electrification_included > 2019
    THEN LET prop == RDiv(R(2030 - bus_electrification_included), nums.bus_lifespan)
             bus_vkt_shift == RMul(bn["vkt_2030_baseline"]["diesel_bus"], prop)
             bn1 == Shift(bn, "vkt_2030_scenario", "diesel_bus", "electric_bus", bus_vkt_shift)
             bus_pkt_shift == RMul(bn1["pkt_2030_baseline"]["diesel_bus"], prop)
         IN  Shift(bn1, "pkt_2030_scenario", "diesel_bus", "electric_bus", bus_pkt_shift)
    ELSE bn

bus_electric(nums, bn, bus_electrification_included) ==
    IF bus_electrification_included > 2019
    THEN LET prop == RDiv(R(2030 - bus_electrification_included), nums.bus_lifespan)
             bus_vkt_shift == RMul(bn["vkt_2030_scenario"]["diesel_bus"], prop)
             bn1 == Shift(bn, "vkt_2030_scenario", "diesel_bus", "electric_bus", bus_vkt_shift)
             bus_pkt_shift == RMul(bn1["pkt_2030_scenario"]["diesel_bus"], prop)
         IN  Shift(bn1, "pkt_2030_scenario", "diesel_bus", "electric_bus", bus_pkt_shift)
    ELSE bn

\* the pkt shift computed from the vkt row
car_electric_pkt_from_vkt(bn, car_electrification_included) ==
    IF RGt(car_electrification_included, R(0))
    THEN LET car_vkt_shift ==
                 RMul(bn["vkt_2030_scenario"]["passenger_light"], car_electrification_included)
             bn1 == Shift(bn, "vkt_2030_scenario", "passenger_light", "electric_light",
                          car_vkt_shift)
         IN  Shift(bn1, "pkt_2030_scenario", "passenger_light", "electric_light",
                   car_vkt_shift)
    ELSE bn

car_electric(bn, car_electrification_included) ==
    IF RGt(car_electrification_included, R(0))
    THEN LET car_vkt_shift ==
                 RMul(bn["vkt_2030_scenario"]["passenger_light"], car_electrification_included)
             bn1 == Shift(bn, "vkt_2030_scenario", "passenger_light", "electric_light",
                          car_vkt_shift)
             car_pkt_shift ==
                 RMul(bn1["pkt_2030_scenario"]["passenger_light"], car_electrification_included)
         IN  Shift(bn1, "pkt_2030_scenario", "passenger_light", "electric_light",
                   car_pkt_shift)
    ELSE bn

\* the override written to the baseline row
car_occupancy_baseline_row(bn, occupancy_included) ==
    IF RGt(occupancy_included, R(0))
    THEN [bn EXCEPT
            !["vkt_2030_baseline"]["passenger_light"] =
                RDiv(bn["pkt_2030_scenario"]["passenger_light"], occupancy_included),
            !["vkt_2030_baseline"]["electric_light"] =
                RDiv(bn["pkt_2030_scenario"]["electric_light"], occupancy_included)]
    ELSE bn

\* the override applied to passenger_light only
car_occupancy_passenger_only(bn, occupancy_included) ==
    IF RGt(occupancy_included, R(0))
    THEN [bn EXCEPT
            !["vkt_2030_scenario"]["passenger_light"] =
                RDiv(bn["pkt_2030_scenario"]["passenger_light"], occupancy_included)]
    ELSE bn

car_occupancy(bn, occupancy_included) ==
    IF RGt(occupancy_included, R(0))
    THEN [bn EXCEPT
            !["vkt_2030_scenario"]["passenger_light"] =
                RDiv(bn["pkt_2030_scenario"]["passenger_light"], occupancy_included),
            !["vkt_2030_scenario"]["electric_light"] =
                RDiv(bn["pkt_2030_scenario"]["electric_light"], occupancy_included)]
    ELSE bn

\* the passenger_light reduction applied to the emissions already in the table
calculate_emissions_compounding(bn, ef, car_emission_change) ==
    LET row == [m \in Modes |-> RMul(ef.values_2030_scenario[m], bn["vkt_2030_scenario"][m])]
    IN  [bn EXCEPT !["emissions_2030_scenario"] =
            [row EXCEPT !["passenger_light"] =
                RMul(bn["emissions_2030_scenario"]["passenger_light"],
                     RSub(R(1), car_emission_change))]]

\* the car emission reduction applied to every mode
calculate_emissions_all_modes(bn, ef, car_emission_change) ==
    [bn EXCEPT !["emissions_2030_scenario"] =
        [m \in Modes |-> RMul(RMul(ef.values_2030_scenario[m], bn["vkt_2030_scenario"][m]),
                              RSub(R(1), car_emission_change))]]

calculate_emissions(bn, ef, car_emission_change) ==
    LET row == [m \in Modes |-> RMul(ef.values_2030_scenario[m], bn["vkt_2030_scenario"][m])]
    IN  [bn EXCEPT !["emissions_2030_scenario"] =
            [row EXCEPT !["passenger_light"] = RMul(@, RSub(R(1), car_emission_change))]]

RECURSIVE CovidLoop_passenger_light(_, _, _, _)
\* the branch naming 'passenger_light' where the code names 'light_fleet'
CovidLoop_passenger_light(nums, bn0, covid, i) ==
    IF i = 0 THEN bn0
    ELSE LET bn == CovidLoop_passenger_light(nums, bn0, covid, i - 1)
             mode == all_modes[i]
             pkt == RMul(RSub(R(1), RDiv(covid, R(100))), bn["pkt_2030_scenario"][mode])
             bn1 == [bn EXCEPT !["pkt_2030_scenario"][mode] = pkt]
         IN  IF mode \in {"cycling", "walking"}
             THEN [bn1 EXCEPT !["vkt_2030_scenario"][mode] = pkt]
             ELSE IF mode \in {"passenger_light", "electric_light"}
             THEN [bn1 EXCEPT !["vkt_2030_scenario"][mode] = RDiv(pkt, nums.car_occupancy)]
             ELSE bn1

RECURSIVE CovidLoop_active_untouched(_, _, _, _)
\* the walking/cycling branch left out
CovidLoop_active_untouched(nums, bn0, covid, i) ==
    IF i = 0 THEN bn0
    ELSE LET bn == CovidLoop_active_untouched(nums, bn0, covid, i - 1)
             mode == all_modes[i]
             pkt == RMul(RSub(R(1), RDiv(covid, R(100))), bn["pkt_2030_scenario"][mode])
             bn1 == [bn EXCEPT !["pkt_2030_scenario"][mode] = pkt]
         IN  IF mode \in {"light_fleet", "electric_light"}
             THEN [bn1 EXCEPT !["vkt_2030_scenario"][mode] = RDiv(pkt, nums.car_occupancy)]
             ELSE bn1

RECURSIVE CovidLoop_scales_vkt(_, _, _, _)
\* the vehicle-distance of the remaining modes scaled with their pkt
CovidLoop_scales_vkt(nums, bn0, covid, i) ==
    IF i = 0 THEN bn0
    ELSE LET bn == CovidLoop_scales_vkt(nums, bn0, covid, i - 1)
             mode == all_modes[i]
             factor == RSub(R(1), RDiv(covid, R(100)))
             pkt == RMul(factor, bn["pkt_2030_scenario"][mode])
             bn1 == [bn EXCEPT !["pkt_2030_scenario"][mode] = pkt]
         IN  IF mode \in {"cycling", "walking"}
             THEN [bn1 EXCEPT !["vkt_2030_scenario"][mode] = pkt]
             ELSE IF mode \in {"light_fleet", "electric_light"}
             THEN [bn1 EXCEPT !["vkt_2030_scenario"][mode] = RDiv(pkt, nums.car_occupancy)]
             ELSE [bn1 EXCEPT !["vkt_2030_scenario"][mode] = RMul(factor, @)]

RECURSIVE CovidLoop(_, _, _, _)
\* the loop over numbers['all_modes'] of covid_trips, first i modes done
CovidLoop(nums, bn0, covid, i) ==
    IF i = 0 THEN bn0
    ELSE LET bn == CovidLoop(nums, bn0, covid, i - 1)
             mode == all_modes[i]
             pkt == RMul(RSub(R(1), RDiv(covid, R(100))), bn["pkt_2030_scenario"][mode])
             bn1 == [bn EXCEPT !["pkt_2030_scenario"][mode] = pkt]
         IN  IF mode \in {"cycling", "walking"}
             THEN [bn1 EXCEPT !["vkt_2030_scenario"][mode] = pkt]
             ELSE IF mode \in {"light_fleet", "electric_light"}
             THEN [bn1 EXCEPT !["vkt_2030_scenario"][mode] = RDiv(pkt, nums.car_occupancy)]
             ELSE bn1

\* the loop run over private_modes only
covid_trips_private_only(bn, covid, nums) == CovidLoop(nums, bn, covid, Len(private_modes))

covid_trips(bn, covid, nums) == CovidLoop(nums, bn, covid, Len(all_modes))

\* ---------------------------------------------------------------- state
VARIABLES
    csv,                \* which input files start-up read
    heap,               \* frame id -> table; frame 0 is master_base_numbers
    emission_factors,   \* module global
    numbers,            \* module global
    pt_effects_vkt,     \* module global
    pt_effects_pkt,     \* module global
    pc,                 \* per callback invocation: the stage to run next
    base_numbers,       \* per invocation: the frame its local base_numbers names
    args,               \* per invocation: its lever arguments (after the /100 conversions)
    trace,              \* per invocation: the stages it has run, in order
    runs                \* per client: invocations started so far

vars == <<csv, heap, emission_factors, numbers, pt_effects_vkt, pt_effects_pkt,
          pc, base_numbers, args, trace, runs>>

globals == <<csv, emission_factors, numbers, pt_effects_vkt, pt_effects_pkt>>

Evaluators == {1, 2}
NoFrame == [r \in Rows |-> [m \in Modes |-> Nan]]
NoArgs == [cycling_included |-> R(0), bus_prop_increase |-> R(0),
           bus_electrification_included |-> 0, occupancy_included |-> R(0),
           car_electrification_included |-> R(0), pt_included |-> {},
           car_emission_change |-> R(0), covid |-> R(0)]

master_base_numbers == heap[0]

\* the bus ridership options a client can send
BusPropIncreaseValues == {R(0), Frac(2, 5), Frac(4, 5)}

\* the car emission options a client can send
CarEmissionChangeValues == {R(0), Frac(1, 2)}

\* the trip reduction percentages a client can send
CovidValues == {R(0), R(50)}

\* the lever values a client sends (as the callback receives them)
LeverSettings ==
    [cycling_included : {R(0), R(5)},
     bus_prop_increase : BusPropIncreaseValues,
     bus_electrification_included : {0, 2025},
     occupancy_included : {R(0), R(158), R(200)},
     car_electrification_included : {R(0), R(25)},
     pt_included : SUBSET Projects,
     car_emission_change : CarEmissionChangeValues,
     covid : CovidValues]

\* the settings used when two clients evaluate at the same time
ConcurrentSettings ==
    {a \in LeverSettings :
        /\ a.pt_included \in {{}, Projects}
        /\ (a.bus_prop_increase = R(0)) = (a.cycling_included = R(0))
        /\ (a.bus_prop_increase = R(0)) = (a.bus_electrification_included = 0)
        /\ (a.car_electrification_included = R(0)) = (a.covid = R(0))
        /\ (a.car_electrification_included = R(0)) = (a.car_emission_change = R(0))
        /\ (a.car_electrification_included = R(0)) = (a.occupancy_included # R(200))
        /\ a.occupancy_included # R(0)}

\* a copy that shares the frame of src instead of duplicating it
copy_shared(h, src, dst) == [ref |-> src, heap |-> h]

\* master_base_numbers.copy(): a new frame (dst) holding the values of src
copy(h, src, dst) == [ref |-> dst, heap |-> [h EXCEPT ![dst] = h[src]]]

\* the occupancy override placed before the trip reduction
StageOrder_occupancy_early ==
    <<"pt_projects_apply", "bus_ridership_changes", "cycling_changes", "bus_electric",
      "car_electric", "car_occupancy", "covid_trips", "calculate_emissions">>

StageOrder ==
    <<"pt_projects_apply", "bus_ridership_changes", "cycling_changes", "bus_electric",
      "car_electric", "covid_trips", "car_occupancy", "calculate_emissions">>

\* the statement that follows stage in update_graph
After(stage) ==
    LET i == CHOOSE j \in DOMAIN StageOrder : StageOrder[j] = stage
    IN  IF i = Len(StageOrder) THEN "done" ELSE StageOrder[i + 1]

\* what start-up (lines 350-352) computes from each set of input files
StartUp ==
    [k \in CsvIds \cup ZeroDenominatorCsvIds |->
        LET loaded == data_load(k)
            nums == data_initialisation(loaded.base_numbers)
            eff == pt_proj_effects(nums, loaded.base_numbers, loaded.pt_details)
        IN  [pt_details |-> loaded.pt_details,
             master_base_numbers |-> loaded.base_numbers,
             emission_factors |-> loaded.emission_factors,
             numbers |-> nums,
             pt_effects_vkt |-> eff.pt_effects_vkt,
             pt_effects_pkt |-> eff.pt_effects_pkt]]

\* the state once start-up has read one of the input files in ids
Started(ids) ==
    /\ csv \in ids
    /\ heap = [f \in {0} \cup Evaluators |->
                 IF f = 0 THEN StartUp[csv].master_base_numbers ELSE NoFrame]
    /\ emission_factors = StartUp[csv].emission_factors
    /\ numbers = StartUp[csv].numbers
    /\ pt_effects_vkt = StartUp[csv].pt_effects_vkt
    /\ pt_effects_pkt = StartUp[csv].pt_effects_pkt
    /\ pc = [e \in Evaluators |-> "idle"]
    /\ base_numbers = [e \in Evaluators |-> e]
    /\ args = [e \in Evaluators |-> NoArgs]
    /\ trace = [e \in Evaluators |-> <<>>]
    /\ runs = [e \in Evaluators |-> 0]

Init == Started(CsvIds)

\* update_graph is called: argument conversions and the copy of the master table
Invoke(e, settings) ==
    /\ pc[e] = "idle"
    /\ runs[e] < MaxRuns
    /\ \E a \in settings :
          args' = [args EXCEPT ![e] =
                     [a EXCEPT !.occupancy_included = RDiv(@, R(100)),
                               !.car_electrification_included = RDiv(@, R(100))]]
    /\ LET c == copy(heap, 0, e)
       IN  /\ heap' = c.heap
           /\ base_numbers' = [base_numbers EXCEPT ![e] = c.ref]
    /\ pc' = [pc EXCEPT ![e] = StageOrder[1]]
    /\ trace' = [trace EXCEPT ![e] = <<>>]
    /\ runs' = [runs EXCEPT ![e] = @ + 1]
    /\ UNCHANGED globals

\* base_numbers = stage(base_numbers, ...): the stage writes the frame in place
RunStage(e, stage, result) ==
    /\ pc[e] = stage
    /\ heap' = [heap EXCEPT ![base_numbers[e]] = result]
    /\ pc' = [pc EXCEPT ![e] = After(stage)]
    /\ trace' = [trace EXCEPT ![e] = Append(@, stage)]
    /\ UNCHANGED <<globals, base_numbers, args, runs>>

Frame(e) == heap[base_numbers[e]]

PtProjectsApply(e) ==
    RunStage(e, "pt_projects_apply",
             pt_projects_apply(Frame(e), pt_effects_vkt, pt_effects_pkt, args[e].pt_included))

BusRidershipChanges(e) ==
    RunStage(e, "bus_ridership_changes",
             bus_ridership_changes(numbers, Frame(e), args[e].bus_prop_increase))

CyclingChanges(e) ==
    RunStage(e, "cycling_changes",
             cycling_changes(numbers, Frame(e), args[e].cycling_included))

BusElectric(e) ==
    RunStage(e, "bus_electric",
             bus_electric(numbers, Frame(e), args[e].bus_electrification_included))

CarElectric(e) ==
    RunStage(e, "car_electric",
             car_electric(Frame(e), args[e].car_electrification_included))

CovidTrips(e) ==
    RunStage(e, "covid_trips", covid_trips(Frame(e), args[e].covid, numbers))

CarOccupancy(e) ==
    RunStage(e, "car_occupancy", car_occupancy(Frame(e), args[e].occupancy_included))

CalculateEmissions(e) ==
    RunStage(e, "calculate_emissions",
             calculate_emissions(Frame(e), emission_factors, args[e].car_emission_change))

\* update_graph returns: its local frame is dropped
Return(e) ==
    /\ pc[e] = "done"
    /\ pc' = [pc EXCEPT ![e] = "idle"]
    /\ heap' = IF base_numbers[e] # 0 THEN [heap EXCEPT ![base_numbers[e]] = NoFrame]
               ELSE heap
    /\ base_numbers' = [base_numbers EXCEPT ![e] = e]
    /\ args' = [args EXCEPT ![e] = NoArgs]
    /\ trace' = [trace EXCEPT ![e] = <<>>]
    /\ UNCHANGED <<globals, runs>>

Stages(e) ==
    \/ PtProjectsApply(e)
    \/ BusRidershipChanges(e)
    \/ CyclingChanges(e)
    \/ BusElectric(e)
    \/ CarElectric(e)
    \/ CovidTrips(e)
    \/ CarOccupancy(e)
    \/ CalculateEmissions(e)
    \/ Return(e)

\* one client: evaluations follow one another
Next == Invoke(1, LeverSettings) \/ Stages(1)

Spec == Init /\ [][Next]_vars

\* two clients: the server runs their callbacks in threads, stage by stage
NextConcurrent == \E e \in Evaluators : Invoke(e, ConcurrentSettings) \/ Stages(e)

SpecConcurrent == Init /\ [][NextConcurrent]_vars

\* one client, input files with a zero proportionality denominator
InitZeroDenominator == Started(ZeroDenominatorCsvIds)

SpecZeroDenominator == InitZeroDenominator /\ [][Next]_vars

\* ------------------------------------------------------- start-up values
Loaded == StartUp[csv]
\* one stage applied to a table, with the start-up values of the globals
ApplyStage(stage, bn, a) ==
    CASE stage = "pt_projects_apply" ->
            pt_projects_apply(bn, Loaded.pt_effects_vkt, Loaded.pt_effects_pkt,
                              a.pt_included)
      [] stage = "bus_ridership_changes" ->
            bus_ridership_changes(Loaded.numbers, bn, a.bus_prop_increase)
      [] stage = "cycling_changes" -> cycling_changes(Loaded.numbers, bn, a.cycling_included)
      [] stage = "bus_electric" ->
            bus_electric(Loaded.numbers, bn, a.bus_electrification_included)
      [] stage = "car_electric" -> car_electric(bn, a.car_electrification_included)
      [] stage = "covid_trips" -> covid_trips(bn, a.covid, Loaded.numbers)
      [] stage = "car_occupancy" -> car_occupancy(bn, a.occupancy_included)
      [] stage = "calculate_emissions" ->
            calculate_emissions(bn, Loaded.emission_factors, a.car_emission_change)

PipelineOrder ==
    <<"pt_projects_apply", "bus_ridership_changes", "cycling_changes", "bus_electric",
      "car_electric", "covid_trips", "car_occupancy", "calculate_emissions">>

RECURSIVE RunAlone(_, _)
\* the table an evaluation with arguments a holds after its first n stages
\* when nothing else runs
RunAlone(a, n) ==
    IF n = 0 THEN Loaded.master_base_numbers
    ELSE ApplyStage(PipelineOrder[n], RunAlone(a, n - 1), a)

RECURSIVE SumOver(_, _)
SumOver(row, S) ==
    IF S = {} THEN R(0)
    ELSE LET m == CHOOSE x \in S : TRUE IN RAdd(row[m], SumOver(row, S \ {m}))

AllDisabled(a) ==
    /\ a.pt_included = {}
    /\ a.bus_prop_increase = R(0)
    /\ a.cycling_included = R(0)
    /\ a.bus_electrification_included = 0
    /\ a.car_electrification_included = R(0)
    /\ a.covid = R(0)
    /\ a.occupancy_included = R(0)
    /\ a.car_emission_change = R(0)

AllEnabled(a) ==
    /\ a.pt_included # {}
    /\ RGt(a.bus_prop_increase, R(0))
    /\ RGt(a.cycling_included, R(0))
    /\ a.bus_electrification_included > 2019
    /\ RGt(a.car_electrification_included, R(0))
    /\ RGt(a.covid, R(0))
    /\ RGt(a.occupancy_included, R(0))
    /\ RGt(a.car_emission_change, R(0))

\* ---------------------------------------------------------------- claims

\* C1 (as stated): when the scenario rows are loaded equal to the baseline
\* rows, an evaluation with every lever disabled ends with
\* pkt_2030_scenario = pkt_2030_baseline and vkt_2030_scenario =
\* vkt_2030_baseline for every mode.
C1_NoOpLaw ==
    \A e \in Evaluators :
        ( /\ pc[e] = "done"
          /\ AllDisabled(args[e])
          /\ Loaded.master_base_numbers["pkt_2030_scenario"] = Loaded.master_base_numbers["pkt_2030_baseline"]
          /\ Loaded.master_base_numbers["vkt_2030_scenario"] = Loaded.master_base_numbers["vkt_2030_baseline"] )
        => \A m \in Modes :
              /\ Frame(e)["pkt_2030_scenario"][m] = Frame(e)["pkt_2030_baseline"][m]
              /\ Frame(e)["vkt_2030_scenario"][m] = Frame(e)["vkt_2030_baseline"][m]

\* C2: at every point of an evaluation the 2018 and 2030-baseline rows
\* (pkt, vkt, emissions) of the working table equal their values at load:
\* the stages write the scenario rows only.
C2_BaselineRowsReadOnly ==
    \A e \in Evaluators :
        pc[e] # "idle" =>
            \A r \in BaselineRows : Frame(e)[r] = Loaded.master_base_numbers[r]

C2_Witness ==
    /\ pc[1] = "done"
    /\ AllEnabled(args[1])
    /\ \A r \in ScenarioRows : Frame(1)[r] # Loaded.master_base_numbers[r]

\* C3: whatever evaluations have run, master_base_numbers, numbers and the
\* project effect tables keep their start-up values, and a finished
\* evaluation holds the table that its own lever settings determine.
C3_Stateless ==
    /\ master_base_numbers = Loaded.master_base_numbers
    /\ numbers = Loaded.numbers
    /\ pt_effects_vkt = Loaded.pt_effects_vkt
    /\ pt_effects_pkt = Loaded.pt_effects_pkt
    /\ emission_factors = Loaded.emission_factors
    /\ \A e \in Evaluators :
          pc[e] = "done" => Frame(e) = RunAlone(args[e], Len(PipelineOrder))

C3_Witness ==
    /\ runs[1] >= 2
    /\ pc[1] = "done"
    /\ AllEnabled(args[1])
    /\ Frame(1) # master_base_numbers

\* C5: an evaluation runs each of the eight stages once, in the order
\* projects, bus ridership, cycling, bus electrification, car
\* electrification, trip reduction, occupancy override, emissions.
C5_StageOrder ==
    \A e \in Evaluators :
        /\ Len(trace[e]) <= Len(PipelineOrder)
        /\ trace[e] = SubSeq(PipelineOrder, 1, Len(trace[e]))
        /\ pc[e] = "done" => trace[e] = PipelineOrder

C5_Witness ==
    /\ pc[1] = "done"
    /\ AllEnabled(args[1])
    /\ Len(trace[1]) = 8
    /\ trace[1][6] = "covid_trips"
    /\ trace[1][7] = "car_occupancy"
    /\ trace[1][8] = "calculate_emissions"

\* C4: when two evaluations interleave stage by stage, each holds a frame of
\* its own (neither the master table nor the other's frame), and after each
\* of its stages the frame is the table the evaluation holds when it runs
\* alone; so is the table it returns.
C4_ConcurrentIsolated ==
    \A e \in Evaluators :
        pc[e] # "idle" =>
            /\ base_numbers[e] # 0
            /\ \A o \in Evaluators \ {e} : pc[o] # "idle" => base_numbers[o] # base_numbers[e]
            /\ Frame(e) = RunAlone(args[e], Len(trace[e]))

C4_Witness ==
    /\ pc[1] \notin {"idle", "done"}
    /\ pc[2] \notin {"idle", "done"}
    /\ pc[1] # pc[2]
    /\ Len(trace[1]) >= 3
    /\ Len(trace[2]) >= 3
    /\ args[1] # args[2]
    /\ Frame(1)["pkt_2030_scenario"] # Frame(2)["pkt_2030_scenario"]

NewFrame(e) == heap'[base_numbers'[e]]
PrivateSet == Range(private_modes)
TransitSet == Range(pt_modes)
LightSet == {"passenger_light", "electric_light"}
ActiveSet == {"walking", "cycling"}

\* C6: bus_electric, from any table and for any start year, leaves scenario
\* diesel_bus + electric_bus unchanged, for pkt and for vkt.
C6_BusElectricConserves ==
    [][\A e \in Evaluators :
          BusElectric(e) =>
             \A row \in {"pkt_2030_scenario", "vkt_2030_scenario"} :
                RAdd(NewFrame(e)[row]["diesel_bus"], NewFrame(e)[row]["electric_bus"])
                   = RAdd(Frame(e)[row]["diesel_bus"], Frame(e)[row]["electric_bus"])]_vars

C6_Witness ==
    /\ pc[1] = "car_electric"
    /\ args[1].bus_electrification_included > 2019
    /\ RGt(args[1].bus_prop_increase, R(0))
    /\ \A row \in {"pkt_2030_scenario", "vkt_2030_scenario"} :
          RGt(Frame(1)[row]["electric_bus"], Loaded.master_base_numbers[row]["electric_bus"])

\* C7: car_electric with a fraction f > 0 sets scenario passenger_light to
\* (1 - f) times its value before the stage and adds f times that value to
\* electric_light, for pkt and for vkt, so their sum is unchanged; vkt
\* 1_000_000 with f = 0.25 leaves 750_000 and adds 250_000.
C7_CarElectricShiftsFraction ==
    [][/\ \A e \in Evaluators :
             (CarElectric(e) /\ RGt(args[e].car_electrification_included, R(0))) =>
                \A row \in {"pkt_2030_scenario", "vkt_2030_scenario"} :
                   LET f == args[e].car_electrification_included
                       pl == Frame(e)[row]["passenger_light"]
                       el == Frame(e)[row]["electric_light"]
                   IN  /\ NewFrame(e)[row]["passenger_light"] = RMul(RSub(R(1), f), pl)
                       /\ NewFrame(e)[row]["electric_light"] = RAdd(el, RMul(f, pl))
                       /\ RAdd(NewFrame(e)[row]["passenger_light"],
                               NewFrame(e)[row]["electric_light"]) = RAdd(pl, el)
       /\ LET t == [master_base_numbers EXCEPT
                       !["vkt_2030_scenario"]["passenger_light"] = R(1000000)]
              u == car_electric(t, Frac(25, 100))
          IN  /\ u["vkt_2030_scenario"]["passenger_light"] = R(750000)
              /\ u["vkt_2030_scenario"]["electric_light"] =
                    RAdd(t["vkt_2030_scenario"]["electric_light"], R(250000))]_vars

C7_Witness ==
    /\ pc[1] = "covid_trips"
    /\ AllEnabled(args[1])
    /\ \A row \in {"pkt_2030_scenario", "vkt_2030_scenario"} :
          RGt(Frame(1)[row]["electric_light"], R(0))

\* C8: pt_projects_apply with a non-empty selection leaves the sum of
\* scenario pkt over the eight modes unchanged: the pkt added to the transit
\* modes is the pkt removed from the four private/active modes.
C8_ProjectsConservePkt ==
    [][\A e \in Evaluators :
          (PtProjectsApply(e) /\ args[e].pt_included # {}) =>
             LET old == Frame(e)["pkt_2030_scenario"]
                 new == NewFrame(e)["pkt_2030_scenario"]
             IN  /\ SumOver(new, Modes) = SumOver(old, Modes)
                 /\ RSub(SumOver(new, TransitSet), SumOver(old, TransitSet))
                       = RSub(SumOver(old, PrivateSet), SumOver(new, PrivateSet))]_vars

C8_Witness ==
    /\ pc[1] = "bus_ridership_changes"
    /\ args[1].pt_included = Projects
    /\ RGt(SumOver(Frame(1)["pkt_2030_scenario"], TransitSet),
           SumOver(Loaded.master_base_numbers["pkt_2030_scenario"], TransitSet))

\* C9 (as stated): pt_projects_apply with a non-empty selection leaves the
\* sum of scenario vkt over the affected modes (the primary modes and the
\* private/active modes) unchanged.
C9_ProjectsConserveVkt ==
    [][\A e \in Evaluators :
          (PtProjectsApply(e) /\ args[e].pt_included # {}) =>
             LET affected == PrivateSet \cup
                                {Loaded.pt_details[p].primary_mode : p \in args[e].pt_included}
             IN  SumOver(NewFrame(e)["vkt_2030_scenario"], affected)
                    = SumOver(Frame(e)["vkt_2030_scenario"], affected)]_vars

\* C9 (amended): pt_projects_apply with a non-empty selection removes from
\* each light-vehicle mode the vkt that is its pkt decrease divided by
\* car_occupancy, removes from walking and cycling the vkt equal to their
\* pkt decrease, and adds to the transit modes the selected projects'
\* service vkt; the vkt sum changes by the difference of the two.
C9_ProjectsVktChange ==
    [][\A e \in Evaluators :
          (PtProjectsApply(e) /\ args[e].pt_included # {}) =>
             LET oldv == Frame(e)["vkt_2030_scenario"]
                 newv == NewFrame(e)["vkt_2030_scenario"]
                 oldp == Frame(e)["pkt_2030_scenario"]
                 newp == NewFrame(e)["pkt_2030_scenario"]
                 service == SumOver([p \in args[e].pt_included |->
                                        pt_effects_vkt[p][Loaded.pt_details[p].primary_mode]],
                                    args[e].pt_included)
                 removed == RAdd(RDiv(RSub(SumOver(oldp, LightSet), SumOver(newp, LightSet)),
                                      numbers.car_occupancy),
                                 RSub(SumOver(oldp, ActiveSet), SumOver(newp, ActiveSet)))
             IN  /\ \A m \in LightSet :
                       RSub(oldv[m], newv[m]) = RDiv(RSub(oldp[m], newp[m]), numbers.car_occupancy)
                 /\ \A m \in ActiveSet : RSub(oldv[m], newv[m]) = RSub(oldp[m], newp[m])
                 /\ RSub(SumOver(newv, TransitSet), SumOver(oldv, TransitSet)) = service
                 /\ RSub(SumOver(newv, Modes), SumOver(oldv, Modes)) = RSub(service, removed)]_vars

C9_Witness ==
    /\ pc[1] = "bus_ridership_changes"
    /\ args[1].pt_included = Projects
    /\ SumOver(Frame(1)["vkt_2030_scenario"], Modes)
          # SumOver(Loaded.master_base_numbers["vkt_2030_scenario"], Modes)

\* C10: after pt_projects_apply with any selection and after
\* bus_ridership_changes with r > 0, the pkt decreases d1, d2 of any two
\* private/active modes m1, m2 satisfy
\* d1 * pkt_2030_baseline[m2] = d2 * pkt_2030_baseline[m1].
C10_Proportionality ==
    [][\A e \in Evaluators :
          (\/ PtProjectsApply(e)
           \/ (BusRidershipChanges(e) /\ RGt(args[e].bus_prop_increase, R(0)))) =>
             \A m1, m2 \in PrivateSet :
                LET d1 == RSub(Frame(e)["pkt_2030_scenario"][m1],
                               NewFrame(e)["pkt_2030_scenario"][m1])
                    d2 == RSub(Frame(e)["pkt_2030_scenario"][m2],
                               NewFrame(e)["pkt_2030_scenario"][m2])
                IN  RMul(d1, Frame(e)["pkt_2030_baseline"][m2])
                       = RMul(d2, Frame(e)["pkt_2030_baseline"][m1])]_vars

C10_Witness ==
    /\ pc[1] = "cycling_changes"
    /\ args[1].pt_included # {}
    /\ RGt(args[1].bus_prop_increase, R(0))
    /\ \A m \in PrivateSet :
          RGt(Loaded.master_base_numbers["pkt_2030_scenario"][m],
              Frame(1)["pkt_2030_scenario"][m])

\* a >= b on finite numbers
RGe(a, b) == IsFinite(a) /\ IsFinite(b) /\ ~RGt(b, a)

\* C11: with the other levers fixed, a run with a larger bus ridership
\* increase r2 >= r1 returns scenario pkt no smaller for diesel_bus and
\* electric_bus and no larger for every private/active mode than the run
\* with r1.
C11_RidershipMonotone ==
    \A e \in Evaluators :
        pc[e] = "done" =>
            \A r2 \in BusPropIncreaseValues :
                RGe(r2, args[e].bus_prop_increase) =>
                    LET lo == Frame(e)["pkt_2030_scenario"]
                        hi == RunAlone([args[e] EXCEPT !.bus_prop_increase = r2],
                                       Len(PipelineOrder))["pkt_2030_scenario"]
                    IN  /\ RGe(hi["diesel_bus"], lo["diesel_bus"])
                        /\ RGe(hi["electric_bus"], lo["electric_bus"])
                        /\ \A m \in PrivateSet : RGe(lo[m], hi[m])

C11_Witness ==
    /\ pc[1] = "done"
    /\ AllEnabled(args[1])
    /\ args[1].bus_prop_increase = Frac(2, 5)
    /\ LET lo == Frame(1)["pkt_2030_scenario"]
           hi == RunAlone([args[1] EXCEPT !.bus_prop_increase = Frac(4, 5)],
                          Len(PipelineOrder))["pkt_2030_scenario"]
       IN  /\ RGt(hi["diesel_bus"], lo["diesel_bus"])
           /\ RGt(hi["electric_bus"], lo["electric_bus"])
           /\ \A m \in PrivateSet : RGt(lo[m], hi[m])

\* C12: bus_ridership_changes with r > 0 adds pkt_2030_baseline[diesel_bus] * r
\* to scenario diesel_bus pkt and subtracts
\* pkt_2030_baseline[m] / mode_sum_pkt * (pkt_2030_baseline[diesel_bus] * r)
\* from the scenario pkt of each private/active mode m; the amount comes from
\* the baseline row whatever the scenario row holds, and a baseline of
\* 100_000 with r = 0.4 adds 40_000.
C12_RidershipShift ==
    [][/\ \A e \in Evaluators :
             (BusRidershipChanges(e) /\ RGt(args[e].bus_prop_increase, R(0))) =>
                LET b == Frame(e)["pkt_2030_baseline"]
                    old == Frame(e)["pkt_2030_scenario"]
                    new == NewFrame(e)["pkt_2030_scenario"]
                    bus_change == RMul(b["diesel_bus"], args[e].bus_prop_increase)
                IN  /\ new["diesel_bus"] = RAdd(old["diesel_bus"], bus_change)
                    /\ \A m \in PrivateSet :
                          new[m] = RSub(old[m],
                                        RMul(RDiv(b[m], numbers.mode_sum_pkt), bus_change))
       /\ LET t == [master_base_numbers EXCEPT
                       !["pkt_2030_baseline"]["diesel_bus"] = R(100000)]
              u == bus_ridership_changes(numbers, t, Frac(4, 10))
          IN  u["pkt_2030_scenario"]["diesel_bus"] =
                 RAdd(t["pkt_2030_scenario"]["diesel_bus"], R(40000))]_vars

\* the scenario diesel_bus pkt already differs from the baseline when the
\* ridership stage has run
C12_Witness ==
    /\ pc[1] = "cycling_changes"
    /\ RGt(args[1].bus_prop_increase, R(0))
    /\ 2 \in args[1].pt_included
    /\ LET b == Loaded.master_base_numbers
       IN  /\ RGt(Frame(1)["pkt_2030_scenario"]["diesel_bus"],
                  RAdd(b["pkt_2030_scenario"]["diesel_bus"],
                       RMul(b["pkt_2030_baseline"]["diesel_bus"],
                            args[1].bus_prop_increase)))
           /\ \A m \in PrivateSet :
                 RGt(b["pkt_2030_scenario"][m], Frame(1)["pkt_2030_scenario"][m])

\* C13: when a run with every lever at its disabled value returns, each
\* mode's emissions_2030_scenario equals the 2030-baseline emission factor
\* of that mode times its vkt_2030_baseline.
C13_DisabledEmissions ==
    \A e \in Evaluators :
        (pc[e] = "done" /\ AllDisabled(args[e])) =>
            \A m \in Modes :
                Frame(e)["emissions_2030_scenario"][m] =
                    RMul(emission_factors.values_2030_baseline[m],
                         Frame(e)["vkt_2030_baseline"][m])

\* C14: calculate_emissions is idempotent: on any table a run holds, with
\* the run's car_emission_change, applying it twice gives the table that
\* applying it once gives, and applying it again to a returned table changes
\* nothing; the (1 - car_emission_change) factor is not compounded.
C14_EmissionsIdempotent ==
    \A e \in Evaluators :
        pc[e] # "idle" =>
            LET once == calculate_emissions(Frame(e), emission_factors,
                                            args[e].car_emission_change)
                twice == calculate_emissions(once, emission_factors,
                                             args[e].car_emission_change)
            IN  /\ twice = once
                /\ pc[e] = "done" => once = Frame(e)

C14_Witness ==
    /\ pc[1] = "done"
    /\ args[1].car_emission_change = Frac(1, 2)
    /\ RGt(Frame(1)["emissions_2030_scenario"]["passenger_light"], R(0))
    /\ Frame(1)["emissions_2030_scenario"]["passenger_light"] # 
          Loaded.master_base_numbers["emissions_2030_scenario"]["passenger_light"]

\* C15: for every project P and every transit mode t other than P's primary
\* mode, pt_effects_pkt[P][t] and pt_effects_vkt[P][t] are 0; so after
\* pt_projects_apply with any selection, a transit mode that is the primary
\* mode of no selected project has its scenario pkt and vkt unchanged.
C15_TransitSide ==
    /\ \A P \in Projects :
          \A t \in TransitSet \ {Loaded.pt_details[P].primary_mode} :
             /\ pt_effects_pkt[P][t] = R(0)
             /\ pt_effects_vkt[P][t] = R(0)
    /\ \A e \in Evaluators :
          pc[e] = "bus_ridership_changes" =>
             \A t \in TransitSet :
                (\A P \in args[e].pt_included : Loaded.pt_details[P].primary_mode # t) =>
                   \A row \in {"pkt_2030_scenario", "vkt_2030_scenario"} :
                      Frame(e)[row][t] = master_base_numbers[row][t]

C15_Witness ==
    /\ pc[1] = "bus_ridership_changes"
    /\ \E P \in args[1].pt_included :
          /\ \E t \in TransitSet :
                \A Q \in args[1].pt_included : Loaded.pt_details[Q].primary_mode # t
          /\ \A row \in {"pkt_2030_scenario", "vkt_2030_scenario"} :
                RGt(Frame(1)[row][Loaded.pt_details[P].primary_mode],
                    master_base_numbers[row][Loaded.pt_details[P].primary_mode])

\* C16: for every project P with primary mode M and every private/active
\* mode m, pt_effects_pkt[P][m] =
\* -(pkt_2030_baseline[m] / mode_sum_pkt) * pt_effects_pkt[P][M], and it is
\* non-positive (the baseline pkt values are non-negative and the projects'
\* frequency, distance and capacity positive).
C16_PrivateSide ==
    \A P \in Projects :
        LET M == Loaded.pt_details[P].primary_mode
            b == master_base_numbers["pkt_2030_baseline"]
        IN  \A m \in PrivateSet :
               /\ pt_effects_pkt[P][m] =
                     RNeg(RMul(RDiv(b[m], numbers.mode_sum_pkt), pt_effects_pkt[P][M]))
               /\ RGe(R(0), pt_effects_pkt[P][m])

C16_Witness ==
    /\ pc[1] = "bus_ridership_changes"
    /\ \A m \in PrivateSet : RGe(master_base_numbers["pkt_2030_baseline"][m], R(0))
    /\ \E P \in args[1].pt_included :
          /\ RGt(pt_effects_pkt[P][Loaded.pt_details[P].primary_mode], R(0))
          /\ \A m \in PrivateSet : RGt(R(0), pt_effects_pkt[P][m])

\* every cell of a table is a finite number
AllFinite(table) == \A row \in DOMAIN table : \A m \in DOMAIN table[row] : IsFinite(table[row][m])

\* C17: with mode_sum_pkt = 0 (or mode_pkt_no_bike = 0 for the cycling
\* stage) the computation aborts with an error: no project effect table and
\* no returned scenario dataset holds a non-numeric value.
C17_ZeroDenominatorAborts ==
    /\ numbers.mode_sum_pkt = R(0) =>
          \A P \in Projects : \A m \in PrivateSet :
             IsFinite(pt_effects_pkt[P][m]) /\ IsFinite(pt_effects_vkt[P][m])
    /\ (numbers.mode_sum_pkt = R(0) \/ numbers.mode_pkt_no_bike = R(0)) =>
          \A e \in Evaluators : pc[e] = "done" => AllFinite(Frame(e))

\* C18: each of the seven lever stages, run on any reachable table with its
\* disabled lever value (pt_projects_apply with [], bus_ridership_changes,
\* cycling_changes, bus_electric, car_electric, covid_trips and
\* car_occupancy with 0), leaves every row of the table unchanged.
C18_StageNoOp ==
    [][\A e \in Evaluators :
          (\/ PtProjectsApply(e) /\ args[e].pt_included = {}
           \/ BusRidershipChanges(e) /\ args[e].bus_prop_increase = R(0)
           \/ CyclingChanges(e) /\ args[e].cycling_included = R(0)
           \/ BusElectric(e) /\ args[e].bus_electrification_included = 0
           \/ CarElectric(e) /\ args[e].car_electrification_included = R(0)
           \/ CovidTrips(e) /\ args[e].covid = R(0)
           \/ CarOccupancy(e) /\ args[e].occupancy_included = R(0)) =>
             NewFrame(e) = Frame(e)]_vars

\* C19: when an evaluation returns, emissions_2030_scenario[m] =
\* values_2030_scenario[m] * vkt_2030_scenario[m] for every mode m other than
\* passenger_light, and for passenger_light that product times (1 - e) with
\* e the car_emission_change; a run with another e and the same other levers
\* has the same emissions for every mode other than passenger_light.
C19_FinalEmissions ==
    \A e \in Evaluators :
        pc[e] = "done" =>
            LET em == Frame(e)["emissions_2030_scenario"]
                product == [m \in Modes |->
                              RMul(emission_factors.values_2030_scenario[m],
                                   Frame(e)["vkt_2030_scenario"][m])]
            IN  /\ \A m \in Modes \ {"passenger_light"} : em[m] = product[m]
                /\ em["passenger_light"] =
                      RMul(product["passenger_light"],
                           RSub(R(1), args[e].car_emission_change))
                /\ \A e2 \in CarEmissionChangeValues :
                      LET other == RunAlone([args[e] EXCEPT !.car_emission_change = e2],
                                            Len(PipelineOrder))["emissions_2030_scenario"]
                      IN  \A m \in Modes \ {"passenger_light"} : other[m] = em[m]

C19_Witness ==
    /\ pc[1] = "done"
    /\ AllEnabled(args[1])
    /\ \A m \in Modes \ {"walking", "cycling"} :
          RGt(Frame(1)["emissions_2030_scenario"][m], R(0))
    /\ RGt(RMul(emission_factors.values_2030_scenario["passenger_light"],
                Frame(1)["vkt_2030_scenario"]["passenger_light"]),
           Frame(1)["emissions_2030_scenario"]["passenger_light"])

\* C20: covid_trips with a percentage p sets pkt_2030_scenario[m] to
\* (1 - p/100) times its value before the stage, for every one of the eight
\* modes.
C20_CovidScalesPkt ==
    [][\A e \in Evaluators :
          CovidTrips(e) =>
             \A m \in Modes :
                NewFrame(e)["pkt_2030_scenario"][m] =
                    RMul(RSub(R(1), RDiv(args[e].covid, R(100))),
                         Frame(e)["pkt_2030_scenario"][m])]_vars

C20_Witness ==
    /\ pc[1] = "car_occupancy"
    /\ args[1].covid = R(50)
    /\ args[1].pt_included = Projects
    /\ \A m \in Modes :
          /\ RGt(Frame(1)["pkt_2030_scenario"][m], R(0))
          /\ RGt(RunAlone(args[1], 5)["pkt_2030_scenario"][m],
                 Frame(1)["pkt_2030_scenario"][m])

\* C21 as stated: covid_trips leaves vkt_2030_scenario[passenger_light] and
\* vkt_2030_scenario[electric_light] equal to their values before the stage.
C21_CovidLeavesLightVkt ==
    [][\A e \in Evaluators :
          CovidTrips(e) =>
             \A m \in LightSet :
                NewFrame(e)["vkt_2030_scenario"][m] = Frame(e)["vkt_2030_scenario"][m]]_vars

\* C21 amended: covid_trips leaves vkt_2030_scenario[passenger_light] equal
\* to its value before the stage and sets vkt_2030_scenario[electric_light]
\* to the new pkt_2030_scenario[electric_light] divided by car_occupancy.
C21_CovidLightVkt ==
    [][\A e \in Evaluators :
          CovidTrips(e) =>
             /\ NewFrame(e)["vkt_2030_scenario"]["passenger_light"] =
                   Frame(e)["vkt_2030_scenario"]["passenger_light"]
             /\ NewFrame(e)["vkt_2030_scenario"]["electric_light"] =
                   RDiv(NewFrame(e)["pkt_2030_scenario"]["electric_light"],
                        numbers.car_occupancy)]_vars

C21_Witness ==
    /\ pc[1] = "car_occupancy"
    /\ args[1].covid = R(50)
    /\ LET before == RunAlone(args[1], 5)["vkt_2030_scenario"]
           after == Frame(1)["vkt_2030_scenario"]
       IN  /\ RGt(before["passenger_light"], R(0))
           /\ after["passenger_light"] = before["passenger_light"]
           /\ RGt(before["electric_light"], after["electric_light"])

\* C22: once covid_trips has run (whatever p, 0 included) and until the
\* evaluation returns, vkt_2030_scenario equals pkt_2030_scenario for walking
\* and for cycling: the later stages do not write these cells, so the
\* returned table has them equal for every lever setting.
C22_ActiveOneToOne ==
    \A e \in Evaluators :
        pc[e] \in {"car_occupancy", "calculate_emissions", "done"} =>
            \A m \in ActiveSet :
                /\ IsFinite(Frame(e)["pkt_2030_scenario"][m])
                /\ Frame(e)["vkt_2030_scenario"][m] = Frame(e)["pkt_2030_scenario"][m]

C22_Witness ==
    /\ pc[1] = "done"
    /\ AllEnabled(args[1])
    /\ \A m \in ActiveSet :
          /\ RunAlone(args[1], 5)["vkt_2030_scenario"][m] #
                RunAlone(args[1], 5)["pkt_2030_scenario"][m]
          /\ RGt(Frame(1)["vkt_2030_scenario"][m], R(0))

\* C23: with an occupancy o > 0 the table at the end of an evaluation has
\* vkt_2030_scenario[m] = pkt_2030_scenario[m] / o for passenger_light and
\* electric_light, whatever vkt the earlier stages left; with o <= 0
\* car_occupancy changes nothing.
C23_OccupancyOverride ==
    [][\A e \in Evaluators :
          LET o == args[e].occupancy_included
          IN  /\ (CalculateEmissions(e) /\ RGt(o, R(0))) =>
                    \A m \in LightSet :
                       NewFrame(e)["vkt_2030_scenario"][m] =
                          RDiv(NewFrame(e)["pkt_2030_scenario"][m], o)
              /\ (CarOccupancy(e) /\ ~RGt(o, R(0))) => NewFrame(e) = Frame(e)
              /\ CarOccupancy(e) =>
                    car_occupancy(Frame(e), RNeg(R(1))) = Frame(e)]_vars

\* an evaluation returned with o = 2 from a table whose light-vehicle vkt
\* before car_occupancy was not pkt / 2
C23_Witness ==
    /\ pc[1] = "done"
    /\ args[1].occupancy_included = R(2)
    /\ AllEnabled(args[1])
    /\ \A m \in LightSet :
          /\ RGt(Frame(1)["vkt_2030_scenario"][m], R(0))
          /\ RunAlone(args[1], 6)["vkt_2030_scenario"][m] # Frame(1)["vkt_2030_scenario"][m]

\* C24: cycling_changes with c > 0 adds (c - 1) * pkt_2030_baseline[cycling]
\* to pkt_2030_scenario[cycling] and adds the same amount to
\* vkt_2030_scenario[cycling].
C24_CyclingIncreaseBoth ==
    [][\A e \in Evaluators :
          (CyclingChanges(e) /\ RGt(args[e].cycling_included, R(0))) =>
             LET increase == RMul(RSub(args[e].cycling_included, R(1)),
                                  Frame(e)["pkt_2030_baseline"]["cycling"])
             IN  \A row \in {"pkt_2030_scenario", "vkt_2030_scenario"} :
                    NewFrame(e)[row]["cycling"] = RAdd(Frame(e)[row]["cycling"], increase)]_vars

\* C25: cycling_changes with c > 0 subtracts
\* pkt_2030_baseline[m] / mode_pkt_no_bike * (c - 1) * pkt_2030_baseline[cycling]
\* from pkt_2030_scenario[m] for passenger_light, electric_light and walking,
\* so the sum of scenario pkt over the four private/active modes is
\* unchanged by the stage; with c = 1 the stage changes nothing.
C25_CyclingDrawDown ==
    [][\A e \in Evaluators :
          CyclingChanges(e) =>
             /\ RGt(args[e].cycling_included, R(0)) =>
                   LET b == Frame(e)["pkt_2030_baseline"]
                       old == Frame(e)["pkt_2030_scenario"]
                       new == NewFrame(e)["pkt_2030_scenario"]
                       increase == RMul(RSub(args[e].cycling_included, R(1)), b["cycling"])
                   IN  /\ \A m \in PrivateSet \ {"cycling"} :
                             new[m] = RSub(old[m],
                                           RMul(RDiv(b[m], numbers.mode_pkt_no_bike), increase))
                       /\ SumOver(new, PrivateSet) = SumOver(old, PrivateSet)
             /\ cycling_changes(numbers, Frame(e), R(1)) = Frame(e)]_vars

C25_Witness ==
    /\ pc[1] = "bus_electric"
    /\ args[1].cycling_included = R(5)
    /\ args[1].pt_included # {}
    /\ LET old == RunAlone(args[1], 2)["pkt_2030_scenario"]
           new == Frame(1)["pkt_2030_scenario"]
       IN  /\ \A m \in PrivateSet \ {"cycling"} : RGt(old[m], new[m]) /\ RGt(new[m], R(0))
           /\ RGt(new["cycling"], old["cycling"])

\* C26: on the table the earlier stages left, bus_electric with a year
\* y <= 2019 (0 included) changes nothing; with y > 2019 it moves exactly
\* (2030 - y) / bus_lifespan, bus_lifespan = 15, of the current scenario
\* diesel_bus pkt and vkt to electric_bus; for y in 2020..2030 the fraction
\* is in [0, 1) and non-negative diesel_bus cells stay non-negative.
C26_BusElectricGateFraction ==
    [][\A e \in Evaluators :
          BusElectric(e) =>
             /\ numbers.bus_lifespan = R(15)
             /\ NewFrame(e) = bus_electric(numbers, Frame(e),
                                           args[e].bus_electrification_included)
             /\ \A y \in {0, 2019, 2020, 2025, 2030} :
                   LET out == bus_electric(numbers, Frame(e), y)
                       prop == Frac(2030 - y, 15)
                   IN  IF y <= 2019 THEN out = Frame(e)
                       ELSE /\ RGe(prop, R(0)) /\ RGt(R(1), prop)
                            /\ \A row \in {"pkt_2030_scenario", "vkt_2030_scenario"} :
                                  LET shift == RMul(prop, Frame(e)[row]["diesel_bus"])
                                  IN  /\ out[row]["diesel_bus"] =
                                            RSub(Frame(e)[row]["diesel_bus"], shift)
                                      /\ out[row]["electric_bus"] =
                                            RAdd(Frame(e)[row]["electric_bus"], shift)
                                      /\ RGe(Frame(e)[row]["diesel_bus"], R(0)) =>
                                            RGe(out[row]["diesel_bus"], R(0))
                                      /\ \A m \in Modes \ {"diesel_bus", "electric_bus"} :
                                            out[row][m] = Frame(e)[row][m]]_vars

\* bus_electric has run with y = 2025 on a table whose scenario diesel_bus
\* cells the earlier stages had changed
C26_Witness ==
    /\ pc[1] = "car_electric"
    /\ args[1].bus_electrification_included = 2025
    /\ 2 \in args[1].pt_included
    /\ RGt(args[1].bus_prop_increase, R(0))
    /\ \A row \in {"pkt_2030_scenario", "vkt_2030_scenario"} :
          /\ RunAlone(args[1], 3)[row]["diesel_bus"] # master_base_numbers[row]["diesel_bus"]
          /\ Frame(1)[row]["diesel_bus"] =
                RMul(Frac(2, 3), RunAlone(args[1], 3)[row]["diesel_bus"])
          /\ RGt(Frame(1)[row]["diesel_bus"], R(0))

\* the scenario pkt and vkt rows of a table
ScenarioPktVkt(table) == <<table["pkt_2030_scenario"], table["vkt_2030_scenario"]>>

\* the listings of a selection: the sequences naming each project of S once
Listings(S) ==
    {s \in [1..Cardinality(S) -> S] : \A i, j \in DOMAIN s : s[i] = s[j] => i = j}

RECURSIVE SumListed(_, _, _)
\* the column sum of the effect rows taken in the order of the listing s
SumListed(eff, s, m) ==
    IF s = <<>> THEN R(0)
    ELSE RAdd(SumListed(eff, SubSeq(s, 1, Len(s) - 1), m), eff[s[Len(s)]][m])

\* C27: on the table pt_projects_apply receives, for any two disjoint
\* project selections A and B (every split of the selection of the
\* evaluation), pt_projects_apply with A and then with B gives the same
\* scenario pkt and vkt rows as one call with A union B, and the sum added is
\* the same for every order in which the projects are listed.
C27_ProjectsAdditive ==
    \A e \in Evaluators :
        pc[e] = "pt_projects_apply" =>
            /\ \A A \in SUBSET args[e].pt_included :
                  LET B == args[e].pt_included \ A
                      apply(bn, S) == pt_projects_apply(bn, pt_effects_vkt, pt_effects_pkt, S)
                  IN  ScenarioPktVkt(apply(apply(Frame(e), A), B)) =
                         ScenarioPktVkt(apply(Frame(e), A \cup B))
            /\ \A m \in Modes :
                  /\ {SumListed(pt_effects_pkt, s, m) : s \in Listings(args[e].pt_included)}
                        = {SumRows(pt_effects_pkt, args[e].pt_included, m)}
                  /\ {SumListed(pt_effects_vkt, s, m) : s \in Listings(args[e].pt_included)}
                        = {SumRows(pt_effects_vkt, args[e].pt_included, m)}

\* an evaluation has applied more than one project to a table, and the same
\* rows come from applying one of them first and the others after
C27_Witness ==
    /\ pc[1] = "bus_ridership_changes"
    /\ Cardinality(args[1].pt_included) > 1
    /\ \E P \in args[1].pt_included :
          LET apply(bn, S) == pt_projects_apply(bn, pt_effects_vkt, pt_effects_pkt, S)
              first == apply(master_base_numbers, {P})
              both == apply(first, args[1].pt_included \ {P})
          IN  /\ first["pkt_2030_scenario"] # master_base_numbers["pkt_2030_scenario"]
              /\ both["pkt_2030_scenario"] # first["pkt_2030_scenario"]
              /\ both["pkt_2030_scenario"] = Frame(1)["pkt_2030_scenario"]
              /\ both["vkt_2030_scenario"] = Frame(1)["vkt_2030_scenario"]

\* C28: bus_ridership_changes, for any r, leaves vkt_2030_scenario unchanged
\* for the four transit modes and pkt_2030_scenario unchanged for
\* electric_bus, heavy_rail and light_rail; only diesel_bus pkt and the
\* private/active modes' pkt and vkt change.
C28_RidershipFrame ==
    [][\A e \in Evaluators :
          BusRidershipChanges(e) =>
             /\ \A t \in TransitSet :
                   NewFrame(e)["vkt_2030_scenario"][t] = Frame(e)["vkt_2030_scenario"][t]
             /\ \A t \in TransitSet \ {"diesel_bus"} :
                   NewFrame(e)["pkt_2030_scenario"][t] = Frame(e)["pkt_2030_scenario"][t]
             /\ \A row \in Rows \ {"pkt_2030_scenario", "vkt_2030_scenario"} :
                   NewFrame(e)[row] = Frame(e)[row]]_vars

C28_Witness ==
    /\ pc[1] = "cycling_changes"
    /\ RGt(args[1].bus_prop_increase, R(0))
    /\ LET old == RunAlone(args[1], 1)
       IN  /\ RGt(Frame(1)["pkt_2030_scenario"]["diesel_bus"],
                  old["pkt_2030_scenario"]["diesel_bus"])
           /\ RGt(old["vkt_2030_scenario"]["diesel_bus"], R(0))
           /\ Frame(1)["vkt_2030_scenario"]["diesel_bus"] =
                 old["vkt_2030_scenario"]["diesel_bus"]
           /\ \A m \in PrivateSet :
                 RGt(old["vkt_2030_scenario"][m], Frame(1)["vkt_2030_scenario"][m])

\* C29: covid_trips, for any p, leaves vkt_2030_scenario unchanged for
\* diesel_bus, electric_bus, heavy_rail and light_rail, so the table at the
\* end of the evaluation has, for every transit mode, the
\* emissions_2030_scenario that a run with any other p and the same other
\* levers has.
C29_CovidLeavesTransitVkt ==
    [][\A e \in Evaluators :
          /\ CovidTrips(e) =>
                \A t \in TransitSet :
                   NewFrame(e)["vkt_2030_scenario"][t] = Frame(e)["vkt_2030_scenario"][t]
          /\ CalculateEmissions(e) =>
                \A p \in CovidValues :
                   LET other == RunAlone([args[e] EXCEPT !.covid = p], Len(PipelineOrder))
                   IN  \A t \in TransitSet :
                          other["emissions_2030_scenario"][t] =
                             NewFrame(e)["emissions_2030_scenario"][t]]_vars

C29_Witness ==
    /\ pc[1] = "done"
    /\ args[1].covid = R(50)
    /\ AllEnabled(args[1])
    /\ LET other == RunAlone([args[1] EXCEPT !.covid = R(0)], Len(PipelineOrder))
       IN  /\ \A t \in TransitSet :
                 /\ RGt(Frame(1)["emissions_2030_scenario"][t], R(0))
                 /\ RGt(other["pkt_2030_scenario"][t], Frame(1)["pkt_2030_scenario"][t])
                 /\ other["emissions_2030_scenario"][t] = Frame(1)["emissions_2030_scenario"][t]
           /\ other["emissions_2030_scenario"] # Frame(1)["emissions_2030_scenario"]

\* the first three stages of the pipeline
FirstThree == {"pt_projects_apply", "bus_ridership_changes", "cycling_changes"}

RECURSIVE RunInOrder(_, _, _, _)
\* the table after the first n stages of the sequence order, applied to bn
\* with the arguments a
RunInOrder(order, bn, a, n) ==
    IF n = 0 THEN bn
    ELSE ApplyStage(order[n], RunInOrder(order, bn, a, n - 1), a)

\* C30: for the lever values of an evaluation, applying pt_projects_apply,
\* bus_ridership_changes and cycling_changes in any of the six orders to the
\* same table (the one the evaluation starts from) gives the same
\* pkt_2030_scenario and vkt_2030_scenario rows.
C30_FirstThreeCommute ==
    \A e \in Evaluators :
        pc[e] = "pt_projects_apply" =>
            {ScenarioPktVkt(RunInOrder(order, Frame(e), args[e], 3)) :
                order \in Listings(FirstThree)}
               = {ScenarioPktVkt(RunInOrder(SubSeq(PipelineOrder, 1, 3), Frame(e), args[e], 3))}

\* an evaluation in which each of the three stages changed the scenario
\* rows, and the reverse order gives the rows it holds
C30_Witness ==
    /\ pc[1] = "bus_electric"
    /\ AllEnabled(args[1])
    /\ \A n \in 1..3 :
          RunAlone(args[1], n)["pkt_2030_scenario"] # RunAlone(args[1], n - 1)["pkt_2030_scenario"]
    /\ LET out == RunInOrder(<<"cycling_changes", "bus_ridership_changes",
                               "pt_projects_apply">>, master_base_numbers, args[1], 3)
       IN  /\ out["pkt_2030_scenario"] = Frame(1)["pkt_2030_scenario"]
           /\ out["vkt_2030_scenario"] = Frame(1)["vkt_2030_scenario"]
=============================================================================
